---- MODULE Spec2Model ----
(***************************************************************************)
(* A model of qrngsim.py: three random-bit generators (a local quantum     *)
(* circuit simulation, the remote ANU web API, the operating system's      *)
(* secure random source) and run_benchmark, the loop that times each of    *)
(* them and collects the durations of the successful ones.                 *)
(*                                                                         *)
(* Python strings are sequences of one-character strings.  The collabora-  *)
(* tors the script calls (the simulator backend, the HTTP endpoint, the    *)
(* random source, the clock) are inputs chosen nondeterministically from   *)
(* small sets.  Time is counted in clock ticks.                            *)
(***************************************************************************)
EXTENDS Integers, Sequences, FiniteSets, TLC

VARIABLES
    target_bits,   \* run_benchmark's argument
    pc,            \* position of run_benchmark
    idx,           \* position of the for loop in the registry, 1..4
    clock,         \* the last value time.perf_counter() returned
    start_time,    \* local of run_benchmark
    end_time,      \* local of run_benchmark
    duration,      \* local of run_benchmark
    bits,          \* local of run_benchmark: what generate_bits returned
    results,       \* local of run_benchmark: name -> duration
    out,           \* the lines printed so far
    raised,        \* the exception propagating out of run_benchmark
    requests,      \* the HTTP requests sent so far
    response,      \* what the remote endpoint answered (NoResponse before)
    invoked,       \* history: the generators called so far, in order
    intervals,     \* history: <<start, end>> of every call that returned
    verdicts       \* history: name -> whether its output was a sentinel

vars == <<target_bits, pc, idx, clock, start_time, end_time, duration, bits,
          results, out, raised, requests, response, invoked, intervals,
          verdicts>>

----------------------------------------------------------------------------
(* Bounds of the model *)

\* the largest target_bits tried (two bytes are requested from 8 bits on)
MaxBits == 9
\* the largest value the clock takes
MaxClock == 3

(* Constants of the program *)

BitsPerByte == 8
FormatWidth == 8
RequestTimeout == 10

----------------------------------------------------------------------------
(* Strings *)

RECURSIVE Join(_)
\* "".join(parts)
Join(parts) ==
    IF parts = <<>> THEN <<>> ELSE Head(parts) \o Join(Tail(parts))

\* s[:n] for n >= 0
Truncate(s, n) ==
    IF n >= Len(s) THEN s ELSE SubSeq(s, 1, n)

\* s.startswith(p)
StartsWith(s, p) ==
    Len(s) >= Len(p) /\ SubSeq(s, 1, Len(p)) = p

\* sub in s
Contains(s, sub) ==
    \E i \in 0..(Len(s) - Len(sub)) : SubSeq(s, i + 1, i + Len(sub)) = sub

RECURSIVE Bin(_)
\* the binary numeral of x >= 0, most significant digit first, no padding
Bin(x) ==
    IF x < 2 THEN <<IF x = 1 THEN "1" ELSE "0">>
    ELSE Bin(x \div 2) \o <<IF x % 2 = 1 THEN "1" ELSE "0">>

RECURSIVE Zeros(_)
Zeros(k) == IF k <= 0 THEN <<>> ELSE <<"0">> \o Zeros(k - 1)

\* f"{x:b}": what a format without the zero padding would give
FormatUnpadded(x) ==
    IF x >= 0 THEN Bin(x) ELSE <<"-">> \o Bin(-x)

\* f"{x:08b}": sign first, then zeros up to a total width of 8, then the
\* digits; a numeral wider than 8 is not cut
Format08b(x) ==
    IF x >= 0
    THEN Zeros(FormatWidth - Len(Bin(x))) \o Bin(x)
    ELSE <<"-">> \o Zeros(FormatWidth - 1 - Len(Bin(-x))) \o Bin(-x)

\* the literal of the except clause, "Error: "
ErrorPrefix == <<"E", "r", "r", "o", "r", ":", " ">>

\* the literal run_benchmark looks for, "Error"
ErrorMarker == <<"E", "r", "r", "o", "r">>

----------------------------------------------------------------------------
(* The generators *)

Registry == <<"Local Qiskit Sim", "Classical OS", "Remote ANU API">>

\* num_bytes = (num_bits // 8) + 1
NumBytes(num_bits) == (num_bits \div BitsPerByte) + 1

Returns(text) == [raises |-> FALSE, text |-> text]
Raises(text) == [raises |-> TRUE, text |-> text]

\* every sequence over S of length k
SeqsOfLen(S, k) == [1..k -> S]

\* every sequence over S of length 0..k
SeqsUpTo(S, k) == UNION {SeqsOfLen(S, j) : j \in 0..k}

(* --- 1. the local simulation.  The backend either fails or returns one   *)
(* outcome per shot, each the value of the single classical bit.           *)

BackendFaultText == <<"f", "a", "u", "l", "t">>

BackendOutcomes(shots) ==
    {[fault |-> TRUE, memory |-> <<>>]}
    \cup {[fault |-> FALSE, memory |-> m] :
            m \in SeqsOfLen({<<"0">>, <<"1">>}, shots)}

SimulatorGenerateBits(num_bits, backend) ==
    IF backend.fault THEN Raises(BackendFaultText)
    ELSE Returns(Join(backend.memory))

(* --- 2. the remote API.  A JSON value of the "data" list is an integer   *)
(* or something else (a string).                                           *)

JInt(v) == [type |-> "int", val |-> v]
JStr == [type |-> "str", val |-> 0]

\* the values a "data" list is built from: bytes, and integers and values
\* outside the documented [0,255]
DataValues == {JInt(0), JInt(170), JInt(255), JInt(-1), JInt(256), JStr}

NoResponse == [kind |-> "none", status |-> 0, data |-> <<>>]

\* what requests.get meets: the connection fails, the timeout expires, or a
\* response arrives with a status and a body (not JSON, JSON without
\* "data", JSON whose "data" is no list but null or a number, JSON with a
\* "data" list of any length)
Responses(num_bytes) ==
    {[kind |-> k, status |-> 0, data |-> <<>>] :
        k \in {"connection_error", "timeout"}}
    \cup {[kind |-> "not_json", status |-> s, data |-> <<>>] :
            s \in {200, 404, 500}}
    \cup {[kind |-> k, status |-> 200, data |-> <<>>] :
            k \in {"no_data", "data_not_list"}}
    \cup {[kind |-> "data", status |-> 200, data |-> d] :
            d \in SeqsUpTo(DataValues, num_bytes + 1)}

MsgConnection == <<>>
MsgTimeout == <<"t", "i", "m", "e", "d", " ", "o", "u", "t">>
MsgClientError ==
    <<"4", "0", "4", " ", "C", "l", "i", "e", "n", "t", " ",
      "E", "r", "r", "o", "r">>
MsgServerError ==
    <<"5", "0", "0", " ", "S", "e", "r", "v", "e", "r", " ",
      "E", "r", "r", "o", "r">>
MsgNotJson == <<"E", "x", "p", "e", "c", "t", "i", "n", "g">>
MsgKeyError == <<"'", "d", "a", "t", "a", "'">>
MsgNotIterable == <<"n", "o", "t", " ", "i", "t", "e", "r", "a", "b", "l", "e">>
MsgFormat == <<"U", "n", "k", "n", "o", "w", "n", " ", "f", "o", "r", "m",
               "a", "t">>

\* the body of the try block: requests.get, raise_for_status, json()["data"],
\* the join of the formatted values, the slice
AnuTry(num_bits, resp) ==
    IF resp.kind = "connection_error" THEN Raises(MsgConnection)
    ELSE IF resp.kind = "timeout" THEN Raises(MsgTimeout)
    ELSE IF resp.status >= 500 THEN Raises(MsgServerError)
    ELSE IF resp.status >= 400 THEN Raises(MsgClientError)
    ELSE IF resp.kind = "not_json" THEN Raises(MsgNotJson)
    ELSE IF resp.kind = "no_data" THEN Raises(MsgKeyError)
    ELSE IF resp.kind = "data_not_list" THEN Raises(MsgNotIterable)
    ELSE IF \E i \in 1..Len(resp.data) : resp.data[i].type # "int"
    THEN Raises(MsgFormat)
    ELSE Returns(Truncate(
            Join([i \in 1..Len(resp.data) |-> Format08b(resp.data[i].val)]),
            num_bits))

\* a handler that lets a timeout through
AnuGenerateBitsTimeoutUncaught(num_bits, resp) ==
    LET r == AnuTry(num_bits, resp)
    IN  IF r.raises /\ resp.kind # "timeout"
        THEN Returns(ErrorPrefix \o r.text) ELSE r

\* try: ...  except Exception as e: return f"Error: {e}"
AnuGenerateBits(num_bits, resp) ==
    LET r == AnuTry(num_bits, resp)
    IN  IF r.raises THEN Returns(ErrorPrefix \o r.text) ELSE r

\* the request of line 37
AnuRequest(num_bits) ==
    [length |-> NumBytes(num_bits), type |-> "uint8",
     timeout |-> RequestTimeout]

(* --- 3. the classical baseline.  secrets.token_bytes either fails or     *)
(* returns num_bytes bytes.                                                *)

\* the byte values tried
ByteValues == {0, 1, 128, 170, 255}

RandomSourceOutcomes(num_bytes) ==
    {[fault |-> TRUE, bytes |-> <<>>]}
    \cup {[fault |-> FALSE, bytes |-> b] : b \in SeqsOfLen(ByteValues, num_bytes)}

\* the baseline with the remote generator's handler around it
ClassicalGenerateBitsCatching(num_bits, source) ==
    IF source.fault THEN Returns(ErrorPrefix \o BackendFaultText)
    ELSE Returns(Truncate(
            Join([i \in 1..Len(source.bytes) |-> Format08b(source.bytes[i])]),
            num_bits))

ClassicalGenerateBits(num_bits, source) ==
    IF source.fault THEN Raises(BackendFaultText)
    ELSE Returns(Truncate(
            Join([i \in 1..Len(source.bytes) |-> Format08b(source.bytes[i])]),
            num_bits))

----------------------------------------------------------------------------
(* run_benchmark *)

Line(kind, name, text, d, speed) ==
    [kind |-> kind, name |-> name, text |-> text, duration |-> d,
     speed |-> speed]

\* f"{speed:.0f}" of target_bits / duration: the quotient rounded to the
\* nearest integer, ties to even
FormatSpeed(t, d) ==
    LET q == t \div d
        r == t % d
    IN  IF 2 * r < d THEN q
        ELSE IF 2 * r > d THEN q + 1
        ELSE IF q % 2 = 0 THEN q ELSE q + 1

Put(map, key, value) ==
    [k \in DOMAIN map \cup {key} |-> IF k = key THEN value ELSE map[k]]

EmptyMap == [k \in {} |-> 0]

Init ==
    /\ target_bits \in 0..MaxBits
    /\ pc = "loop"
    /\ idx = 1
    /\ clock = 0
    /\ start_time = 0
    /\ end_time = 0
    /\ duration = 0
    /\ bits = <<>>
    /\ results = EmptyMap
    /\ out = <<Line("title", "", <<>>, 0, target_bits),
               Line("header", "", <<>>, 0, 0),
               Line("rule", "", <<>>, 0, 0)>>
    /\ raised = "none"
    /\ requests = <<>>
    /\ response = NoResponse
    /\ invoked = <<>>
    /\ intervals = <<>>
    /\ verdicts = EmptyMap

\* line 70: start_time = time.perf_counter()
StartTimer ==
    /\ pc = "loop"
    /\ idx <= Len(Registry)
    /\ \E t \in clock..MaxClock :
        /\ clock' = t
        /\ start_time' = t
    /\ pc' = "call"
    /\ UNCHANGED <<target_bits, idx, end_time, duration, bits, results, out,
                   raised, requests, response, invoked, intervals, verdicts>>

\* a call wrapped in a handler that turns every exception into a sentinel
CalledCatching(outcome) ==
    /\ invoked' = Append(invoked, Registry[idx])
    /\ pc' = "stop"
    /\ bits' = IF outcome.raises THEN ErrorPrefix \o outcome.text
               ELSE outcome.text
    /\ verdicts' = Put(verdicts, Registry[idx],
                       outcome.raises \/ StartsWith(outcome.text, ErrorPrefix))
    /\ UNCHANGED raised

\* line 71, the tail shared by the three generators: the value is bound to
\* bits, or the exception leaves run_benchmark
Called(outcome) ==
    /\ invoked' = Append(invoked, Registry[idx])
    /\ IF outcome.raises
       THEN /\ pc' = "raised"
            /\ raised' = "Fault"
            /\ UNCHANGED <<bits, verdicts>>
       ELSE /\ pc' = "stop"
            /\ bits' = outcome.text
            /\ verdicts' = Put(verdicts, Registry[idx],
                               StartsWith(outcome.text, ErrorPrefix))
            /\ UNCHANGED raised

CallSimulator ==
    /\ pc = "call"
    /\ Registry[idx] = "Local Qiskit Sim"
    /\ \E backend \in BackendOutcomes(target_bits) :
        Called(SimulatorGenerateBits(target_bits, backend))
    /\ UNCHANGED <<target_bits, idx, clock, start_time, end_time, duration,
                   results, out, requests, response, intervals>>

CallClassical ==
    /\ pc = "call"
    /\ Registry[idx] = "Classical OS"
    /\ \E source \in RandomSourceOutcomes(NumBytes(target_bits)) :
        Called(ClassicalGenerateBits(target_bits, source))
    /\ UNCHANGED <<target_bits, idx, clock, start_time, end_time, duration,
                   results, out, requests, response, intervals>>

CallRemote ==
    /\ pc = "call"
    /\ Registry[idx] = "Remote ANU API"
    /\ requests' = Append(requests, AnuRequest(target_bits))
    /\ \E resp \in Responses(NumBytes(target_bits)) :
        /\ response' = resp
        /\ Called(AnuGenerateBits(target_bits, resp))
    /\ UNCHANGED <<target_bits, idx, clock, start_time, end_time, duration,
                   results, out, intervals>>

\* lines 72-74: end_time = time.perf_counter(); duration = end - start
StopTimer ==
    /\ pc = "stop"
    /\ \E t \in clock..MaxClock :
        /\ clock' = t
        /\ end_time' = t
        /\ duration' = t - start_time
        /\ intervals' = Append(intervals, <<start_time, t>>)
    /\ pc' = "check"
    /\ UNCHANGED <<target_bits, idx, start_time, bits, results, out, raised,
                   requests, response, invoked, verdicts>>

\* the FAILED line without the continue: the entry is recorded as well
ReportFailureFallThrough ==
    /\ pc = "check"
    /\ Contains(bits, ErrorMarker)
    /\ out' = Append(out, Line("FAILED", Registry[idx], bits, 0, 0))
    /\ results' = Put(results, Registry[idx], duration)
    /\ idx' = idx + 1
    /\ pc' = "loop"
    /\ UNCHANGED <<target_bits, clock, start_time, end_time, duration, bits,
                   raised, requests, response, invoked, intervals, verdicts>>

\* lines 76-78: the FAILED line, and on to the next generator
ReportFailure ==
    /\ pc = "check"
    /\ Contains(bits, ErrorMarker)
    /\ out' = Append(out, Line("FAILED", Registry[idx], bits, 0, 0))
    /\ idx' = idx + 1
    /\ pc' = "loop"
    /\ UNCHANGED <<target_bits, clock, start_time, end_time, duration, bits,
                   results, raised, requests, response, invoked, intervals,
                   verdicts>>

\* a guarded division: a zero duration is recorded like any other
DivideByZeroGuarded ==
    /\ pc = "check"
    /\ ~Contains(bits, ErrorMarker)
    /\ duration = 0
    /\ results' = Put(results, Registry[idx], duration)
    /\ out' = Append(out, Line("row", Registry[idx], <<>>, duration, 0))
    /\ idx' = idx + 1
    /\ pc' = "loop"
    /\ UNCHANGED <<target_bits, clock, start_time, end_time, duration, bits,
                   raised, requests, response, invoked, intervals, verdicts>>

\* line 80 with duration = 0: the division raises ZeroDivisionError
DivideByZero ==
    /\ pc = "check"
    /\ ~Contains(bits, ErrorMarker)
    /\ duration = 0
    /\ pc' = "raised"
    /\ raised' = "ZeroDivisionError"
    /\ UNCHANGED <<target_bits, idx, clock, start_time, end_time, duration,
                   bits, results, out, requests, response, invoked, intervals,
                   verdicts>>

\* lines 80-83: the speed, the entry, the row
RecordResult ==
    /\ pc = "check"
    /\ ~Contains(bits, ErrorMarker)
    /\ duration # 0
    /\ results' = Put(results, Registry[idx], duration)
    /\ out' = Append(out, Line("row", Registry[idx], <<>>, duration,
                               FormatSpeed(target_bits, duration)))
    /\ idx' = idx + 1
    /\ pc' = "loop"
    /\ UNCHANGED <<target_bits, clock, start_time, end_time, duration, bits,
                   raised, requests, response, invoked, intervals, verdicts>>

\* line 85, after the loop
Return ==
    /\ pc = "loop"
    /\ idx > Len(Registry)
    /\ pc' = "returned"
    /\ UNCHANGED <<target_bits, idx, clock, start_time, end_time, duration,
                   bits, results, out, raised, requests, response, invoked,
                   intervals, verdicts>>

Next ==
    \/ StartTimer
    \/ CallSimulator
    \/ CallClassical
    \/ CallRemote
    \/ StopTimer
    \/ ReportFailure
    \/ DivideByZero
    \/ RecordResult
    \/ Return

Spec == Init /\ [][Next]_vars

----------------------------------------------------------------------------
(* Vocabulary of the properties *)

Simulator == Registry[1]
Classical == Registry[2]
Remote == Registry[3]

\* s is a string of exactly n characters, each '0' or '1'
IsBitString(s, n) ==
    Len(s) = n /\ \A i \in 1..Len(s) : s[i] \in {"0", "1"}

\* generate_bits has just returned into bits
JustReturned == pc = "stop"

\* a line of the given kind was printed for generator g
HasLine(kind, g) ==
    \E i \in 1..Len(out) : out[i].kind = kind /\ out[i].name = g

\* the loop has finished with the i-th generator
Processed(i) == idx > i

\* the remote call failed before a body could be read
RemoteCallFailed ==
    \/ response.kind \in {"connection_error", "timeout"}
    \/ response.status >= 400

\* the "data" list is the documented one: integers, all within [0,255]
DataInRange ==
    \A i \in 1..Len(response.data) :
        /\ response.data[i].type = "int"
        /\ response.data[i].val \in 0..255

\* an HTTP-successful response that is not the documented one
Malformed ==
    /\ response.kind \in {"not_json", "no_data", "data_not_list", "data"}
    /\ response.status = 200
    /\ \/ response.kind # "data"
       \/ ~DataInRange
       \/ Len(response.data) < NumBytes(target_bits)

RECURSIVE Pow2(_)
Pow2(k) == IF k = 0 THEN 1 ELSE 2 * Pow2(k - 1)

\* the j-th bit (1-based, most significant bit of the first byte first) of a
\* list of bytes
BitOf(data, j) ==
    LET b == data[((j - 1) \div 8) + 1].val
        pos == (j - 1) % 8
    IN  IF (b \div Pow2(7 - pos)) % 2 = 1 THEN "1" ELSE "0"

----------------------------------------------------------------------------
(* C1: for n >= 1, whatever a generator returns that is not a failure      *)
(* sentinel is a string of exactly n characters, each '0' or '1'; for the  *)
(* remote generator whatever the "data" list of the response holds.        *)
C1_ReturnedBitsExact ==
    (JustReturned /\ target_bits >= 1 /\ ~StartsWith(bits, ErrorPrefix))
        => IsBitString(bits, target_bits)

C3_SentinelExcluded ==
    \A i \in 1..Len(Registry) :
        (Registry[i] \in DOMAIN verdicts /\ verdicts[Registry[i]]) =>
            /\ Registry[i] \notin DOMAIN results
            /\ (Processed(i) \/ pc = "returned")
                    => HasLine("FAILED", Registry[i])

C3_Witness ==
    /\ pc = "returned"
    /\ Remote \in DOMAIN verdicts
    /\ verdicts[Remote]
    /\ DOMAIN results = {Simulator, Classical}

(* C4: when a run has ended, the result mapping holds an entry for every   *)
(* generator whose output was a successful bit string, and only for those, *)
(* with a non-negative duration, a duration of zero included.              *)
C4_OneEntryPerSuccess ==
    (target_bits >= 1 /\ pc \in {"returned", "raised"}) =>
        /\ \A g \in DOMAIN verdicts : ~verdicts[g] => g \in DOMAIN results
        /\ \A g \in DOMAIN results :
            g \in DOMAIN verdicts /\ ~verdicts[g] /\ results[g] >= 0

(* C5: the classical generator never returns the failure sentinel: its     *)
(* output neither starts with "Error: " nor contains "Error", no FAILED    *)
(* line is printed for it, and its output is never judged a failure.       *)
C5_ClassicalNeverSentinel ==
    /\ (idx = 2 /\ pc \in {"stop", "check"}) =>
            /\ ~StartsWith(bits, ErrorPrefix)
            /\ ~Contains(bits, ErrorMarker)
    /\ ~HasLine("FAILED", Classical)
    /\ Classical \in DOMAIN verdicts => ~verdicts[Classical]

C5_Witness ==
    /\ idx = 2
    /\ pc = "check"
    /\ target_bits = 9
    /\ bits = <<"1", "0", "1", "0", "1", "0", "1", "0", "1">>

(* C6: when the remote API answers with floor(n/8)+1 bytes, each within    *)
(* [0,255], generate_bits(n) has requested exactly floor(n/8)+1 values of  *)
(* type uint8 and returns the first n bits of the bytes, each byte written *)
(* most significant bit first; data [255,0] with n = 9 gives "111111110".  *)
C6_RemoteBitsOfBytes ==
    (/\ response.kind = "data"
     /\ response.status = 200
     /\ DataInRange
     /\ Len(response.data) = (target_bits \div 8) + 1) =>
        /\ Len(requests) = 1
        /\ requests[1].length = (target_bits \div 8) + 1
        /\ requests[1].type = "uint8"
        /\ raised # "Fault"
        /\ Len(bits) = target_bits
        /\ \A j \in 1..target_bits : bits[j] = BitOf(response.data, j)
        /\ (target_bits = 9 /\ response.data = <<JInt(255), JInt(0)>>) =>
                bits = <<"1", "1", "1", "1", "1", "1", "1", "1", "0">>

C6_Witness ==
    /\ target_bits = 9
    /\ response.kind = "data"
    /\ response.data = <<JInt(255), JInt(0)>>
    /\ bits = <<"1", "1", "1", "1", "1", "1", "1", "1", "0">>

(* C7: every malformed HTTP-successful response (no JSON, no "data", a     *)
(* "data" that is not a list of integers within [0,255], fewer values than *)
(* requested) makes generate_bits return a string starting with "Error: ". *)
C7_MalformedIsFailure ==
    Malformed => StartsWith(bits, ErrorPrefix)

(* The order of the calls, which holds of every run: the generators are   *)
(* called one at a time in registry order, each at most once; a call's     *)
(* start is read before it and its end after it and before the next start, *)
(* so the timed intervals do not overlap; a failure sentinel sends the     *)
(* loop on to the next generator; the mapping is returned only after all   *)
(* three generators have been called and timed.                            *)
CallsInOrder ==
    /\ Len(invoked) <= Len(Registry)
    /\ \A i \in 1..Len(invoked) : invoked[i] = Registry[i]
    /\ Len(intervals) <= Len(invoked)
    /\ Len(invoked) <= Len(intervals) + 1
    /\ Len(invoked) = (IF pc \in {"loop", "call", "returned"}
                       THEN idx - 1 ELSE idx)
    /\ \A i \in 1..Len(intervals) : intervals[i][1] <= intervals[i][2]
    /\ \A i \in 1..(Len(intervals) - 1) :
            intervals[i][2] <= intervals[i + 1][1]
    /\ (pc \in {"call", "stop"} /\ intervals # <<>>) =>
            intervals[Len(intervals)][2] <= start_time
    /\ \A i \in 1..Len(Registry) :
            (Registry[i] \in DOMAIN verdicts /\ verdicts[Registry[i]]
             /\ pc \notin {"stop", "check"}) => Processed(i)
    /\ pc = "returned" =>
            /\ invoked = Registry
            /\ Len(intervals) = Len(Registry)
            /\ DOMAIN verdicts = {Simulator, Classical, Remote}

(* C8: in every run in which no generator raises, each of the three        *)
(* generators is called exactly once, one at a time and in registry order, *)
(* with timed intervals that do not overlap; a failure sentinel does not   *)
(* stop the loop, and the mapping is returned only after all three.        *)
C8_EachInvokedOnce ==
    /\ CallsInOrder
    /\ (pc \in {"returned", "raised"} /\ raised # "Fault") =>
            /\ invoked = Registry
            /\ Len(intervals) = Len(Registry)

(* C9: a fault raised by the simulator or the classical generator is not   *)
(* caught: the run ends with it, no later generator is called, no FAILED   *)
(* line is printed for the generator, no entry is recorded for it and no   *)
(* mapping is returned; a run that returns a mapping has seen no such      *)
(* fault, while it may have seen a failure of the remote generator.        *)
C9_LocalFaultPropagates ==
    /\ raised = "Fault" =>
            /\ pc = "raised"
            /\ Registry[idx] \in {Simulator, Classical}
            /\ Len(invoked) = idx
            /\ invoked[idx] = Registry[idx]
            /\ ~HasLine("FAILED", Registry[idx])
            /\ Registry[idx] \notin DOMAIN results
            /\ Registry[idx] \notin DOMAIN verdicts
    /\ pc = "returned" =>
            /\ raised = "none"
            /\ {Simulator, Classical} \subseteq DOMAIN results
            /\ ~HasLine("FAILED", Simulator)
            /\ ~HasLine("FAILED", Classical)
    /\ HasLine("FAILED", Remote) => raised = "none"

C9_Witness ==
    /\ raised = "Fault"
    /\ pc = "raised"
    /\ idx = 2
    /\ invoked = <<Simulator, Classical>>
    /\ DOMAIN results = {Simulator}

(* C10: a successful bit string timed at a duration of exactly zero ends   *)
(* the run with a division by zero: no entry and no row for that           *)
(* generator, no later generator called, no mapping returned.  With a      *)
(* non-zero duration the entry is inserted and the row printed.            *)
C10_ZeroDurationDivision ==
    /\ \A i \in 1..Len(intervals) :
        ~verdicts[Registry[i]] =>
            IF intervals[i][2] - intervals[i][1] = 0
            THEN /\ idx = i
                 /\ pc \in {"check", "raised"}
                 /\ pc = "raised" => raised = "ZeroDivisionError"
                 /\ Registry[i] \notin DOMAIN results
                 /\ ~HasLine("row", Registry[i])
                 /\ Len(invoked) = i
            ELSE Processed(i) =>
                    /\ Registry[i] \in DOMAIN results
                    /\ results[Registry[i]] = intervals[i][2] - intervals[i][1]
                    /\ HasLine("row", Registry[i])
    /\ raised = "ZeroDivisionError" =>
            /\ pc = "raised"
            /\ duration = 0
            /\ Len(intervals) = idx
            /\ ~verdicts[Registry[idx]]

C10_Witness ==
    /\ raised = "ZeroDivisionError"
    /\ pc = "raised"
    /\ idx = 2
    /\ DOMAIN results = {Simulator}
    /\ invoked = <<Simulator, Classical>>

====
